---- MODULE Spec2Model ----
(***************************************************************************)
(* Model of the travel assistant's checkout MCP server (reserve_flight /   *)
(* confirm_reservation over the in-memory RESERVATIONS dictionary) and of  *)
(* the WebSocket connection handler of travel_assistant.py.                *)
(***************************************************************************)
EXTENDS Integers, Sequences, FiniteSets, TLC

(***************************************************************************)
(* Bounds of the model                                                     *)
(***************************************************************************)
\* number of tool calls the checkout server executes in one behaviour
MaxCalls == 3

\* task messages a client sends on one connection
MaxTasks == 2

\* chunks the agent stream yields for one task
MaxChunks == 2

\* card ids in one get_card_benefits request
MaxIds == 2

\* the client sessions that call the checkout tools
Sessions == {"s1", "s2"}

\* the WebSocket connections the gateway serves
Conns == {"c1"}

(***************************************************************************)
(* Python dictionaries are functions; d[k] = v adds or overwrites a key.   *)
(***************************************************************************)
EmptyDict == <<>>

DictSet(d, k, v) == [x \in (DOMAIN d) \cup {k} |-> IF x = k THEN v ELSE d[x]]

\* {**d, **e}: the entries of e win
DictMerge(d, e) == [x \in (DOMAIN d) \cup (DOMAIN e) |-> IF x \in DOMAIN e THEN e[x] ELSE d[x]]

\* truthiness of a str argument: the empty string is falsy
Truthy(v) == v # ""

(***************************************************************************)
(* Inputs                                                                  *)
(***************************************************************************)
\* reservation_id of reserve_flight
MockReservationId == "55f0b400-e29b-41d4-a716-446655440000"

ReservationIds == {MockReservationId, "unknown-id"}

\* a reservationId that is a list instead of a str: "in RESERVATIONS" and
\* RESERVATIONS[...] raise TypeError (unhashable type) for it
ListArgument == "['55f0b400-e29b-41d4-a716-446655440000']"

Hashable(v) == v # ListArgument

ValidRequestA ==
    [departureAirportCode |-> "JFK", destinationAirportCode |-> "LHR",
     departureDate |-> "2025-06-04", arrivalDate |-> "2025-06-05",
     numberOfPassengers |-> 1, paymentMethod |-> "pm-123"]

ValidRequestB ==
    [departureAirportCode |-> "SFO", destinationAirportCode |-> "ORD",
     departureDate |-> "2025-07-01", arrivalDate |-> "2025-07-02",
     numberOfPassengers |-> 2, paymentMethod |-> "pm-456"]

BookingFields ==
    {"departureAirportCode", "destinationAirportCode", "departureDate",
     "arrivalDate", "numberOfPassengers", "paymentMethod"}

\* the value an absent/empty argument of each field has
MissingValue(f) == IF f = "numberOfPassengers" THEN 0 ELSE ""

IsMissing(a, f) == a[f] = MissingValue(f)

\* ValidRequestA with one field missing, for each field
OneMissing == {[ValidRequestA EXCEPT ![f] = MissingValue(f)] : f \in BookingFields}

BookingRequests == {ValidRequestA, ValidRequestB} \cup OneMissing

(***************************************************************************)
(* Results of a tool call: a returned dictionary or a raised exception     *)
(***************************************************************************)
Return(v) == [kind |-> "return", value |-> v]

Raise(e) == [kind |-> "raise", exc |-> e]

CheckoutError(message, error_code, details) ==
    [type |-> "CheckoutError", message |-> message, error_code |-> error_code,
     details |-> details]

\* datetime.now().strftime("%Y%m%d_%H%M%S") and datetime.now().isoformat()
RequestId(now) == <<"request", now>>

IsoFormat(now) == <<"iso", now>>

\* mutation of ExceptClauses: the re-raised CheckoutError gets a new details
\* dictionary instead of the original one extended
ExceptClauses_details_dropped(r, now, unexpected) ==
    IF r.outcome.kind = "return" THEN r
    ELSE IF r.outcome.exc.type = "CheckoutError"
    THEN [r EXCEPT !.outcome =
            Raise(CheckoutError(r.outcome.exc.message, r.outcome.exc.error_code,
                    [request_id |-> RequestId(now), timestamp |-> IsoFormat(now)]))]
    ELSE [r EXCEPT !.outcome =
            Raise(CheckoutError(unexpected, "INTERNAL_ERROR",
                    [request_id |-> RequestId(now), timestamp |-> IsoFormat(now),
                     error |-> r.outcome.exc.message]))]

\* mutation of ExceptClauses: one except clause catches every exception
ExceptClauses_all_internal(r, now, unexpected) ==
    IF r.outcome.kind = "return" THEN r
    ELSE [r EXCEPT !.outcome =
            Raise(CheckoutError(unexpected, "INTERNAL_ERROR",
                    [request_id |-> RequestId(now), timestamp |-> IsoFormat(now),
                     error |-> r.outcome.exc.message]))]

\* the two except clauses that close the try block of both tools
ExceptClauses(r, now, unexpected) ==
    IF r.outcome.kind = "return" THEN r
    ELSE IF r.outcome.exc.type = "CheckoutError"
    THEN [r EXCEPT !.outcome =
            Raise(CheckoutError(r.outcome.exc.message, r.outcome.exc.error_code,
                    DictMerge(r.outcome.exc.details,
                        [request_id |-> RequestId(now), timestamp |-> IsoFormat(now)])))]
    ELSE [r EXCEPT !.outcome =
            Raise(CheckoutError(unexpected, "INTERNAL_ERROR",
                    [request_id |-> RequestId(now), timestamp |-> IsoFormat(now),
                     error |-> r.outcome.exc.message]))]

(***************************************************************************)
(* reserve_flight                                                          *)
(***************************************************************************)
\* the condition of the MISSING_DETAILS check
HasRequiredDetails(a) ==
    /\ Truthy(a.departureAirportCode)
    /\ Truthy(a.destinationAirportCode)
    /\ Truthy(a.departureDate)
    /\ Truthy(a.paymentMethod)

\* mutation of NewReservation: the two dates are stored under each other's key
NewReservation_dates_swapped(a, now) ==
    [departureAirportCode |-> a.departureAirportCode,
     destinationAirportCode |-> a.destinationAirportCode,
     departureDate |-> a.arrivalDate,
     arrivalDate |-> a.departureDate,
     numberOfPassengers |-> a.numberOfPassengers,
     paymentMethod |-> a.paymentMethod,
     reservationStatus |-> "PENDING",
     created_at |-> now]

NewReservation(a, now) ==
    [departureAirportCode |-> a.departureAirportCode,
     destinationAirportCode |-> a.destinationAirportCode,
     departureDate |-> a.departureDate,
     arrivalDate |-> a.arrivalDate,
     numberOfPassengers |-> a.numberOfPassengers,
     paymentMethod |-> a.paymentMethod,
     reservationStatus |-> "PENDING",
     created_at |-> now]

\* mutation of reserve_flight_try: the reservation is stored before the
\* MISSING_DETAILS check
reserve_flight_try_store_first(store, a, now) ==
    LET reservation_id == MockReservationId
        stored == DictSet(store, reservation_id, NewReservation(a, now))
    IN IF ~HasRequiredDetails(a)
       THEN [store |-> stored,
             outcome |-> Raise(CheckoutError("Missing required reservation details",
                                             "MISSING_DETAILS", EmptyDict))]
       ELSE [store |-> stored,
             outcome |-> Return([reservationId |-> reservation_id,
                                 reservationStatus |-> "PENDING",
                                 message |-> <<"Reservation ", reservation_id,
                                     " created successfully. Awaiting confirmation.">>])]

\* mutation of reserve_flight_try: a reservation gets an id of its own when the
\* fixed id is taken
reserve_flight_try_own_id(store, a, now) ==
    IF ~HasRequiredDetails(a)
    THEN [store |-> store,
          outcome |-> Raise(CheckoutError("Missing required reservation details",
                                          "MISSING_DETAILS", EmptyDict))]
    ELSE LET reservation_id == IF MockReservationId \in DOMAIN store
                               THEN "55f0b400-e29b-41d4-a716-446655440001"
                               ELSE MockReservationId IN
         [store |-> DictSet(store, reservation_id, NewReservation(a, now)),
          outcome |-> Return([reservationId |-> reservation_id,
                              reservationStatus |-> "PENDING",
                              message |-> <<"Reservation ", reservation_id,
                                  " created successfully. Awaiting confirmation.">>])]

\* the try block of reserve_flight
reserve_flight_try(store, a, now) ==
    IF ~HasRequiredDetails(a)
    THEN [store |-> store,
          outcome |-> Raise(CheckoutError("Missing required reservation details",
                                          "MISSING_DETAILS", EmptyDict))]
    ELSE LET reservation_id == MockReservationId IN
         [store |-> DictSet(store, reservation_id, NewReservation(a, now)),
          outcome |-> Return([reservationId |-> reservation_id,
                              reservationStatus |-> "PENDING",
                              message |-> <<"Reservation ", reservation_id,
                                  " created successfully. Awaiting confirmation.">>])]

reserve_flight(store, a, now) ==
    ExceptClauses(reserve_flight_try(store, a, now), now,
                  "An unexpected error occurred during the reservation process")

(***************************************************************************)
(* confirm_reservation                                                     *)
(***************************************************************************)
\* mutation of IsPending: the status check is left out
IsPending_unchecked(reservation) == TRUE

\* a stored reservation passes the "is pending" check
IsPending(reservation) == reservation.reservationStatus = "PENDING"

\* mutation of Confirmed: the entry is replaced by a new dictionary that holds
\* only the status and the confirmation time
Confirmed_entry_replaced(reservation, now) ==
    [reservationStatus |-> "CONFIRMED", confirmed_at |-> now]

\* mutation of Confirmed: the confirmation time is not recorded
Confirmed_no_timestamp(reservation, now) ==
    DictSet(reservation, "reservationStatus", "CONFIRMED")

\* mutation of Confirmed: the status assignment is left out
Confirmed_status_not_set(reservation, now) == DictSet(reservation, "confirmed_at", now)

\* reservation["reservationStatus"] = "CONFIRMED"; reservation["confirmed_at"] = now
\* (reservation is the dictionary held in the store, changed in place)
Confirmed(reservation, now) ==
    DictSet(DictSet(reservation, "reservationStatus", "CONFIRMED"), "confirmed_at", now)

\* the try block of confirm_reservation once the id is known to be in the store
confirm_existing(store, reservationId, now) ==
    LET reservation == store[reservationId] IN
    IF ~IsPending(reservation)
    THEN [store |-> store,
          outcome |-> Raise(CheckoutError(
              <<"Reservation ID ", reservationId, " is not pending (current status: ",
                reservation.reservationStatus, ")">>,
              "RESERVATION_NOT_PENDING",
              [reservationId |-> reservationId,
               current_status |-> reservation.reservationStatus]))]
    ELSE [store |-> DictSet(store, reservationId, Confirmed(reservation, now)),
          outcome |-> Return([reservationId |-> reservationId,
                              reservationStatus |-> "CONFIRMED",
                              message |-> <<"Reservation ", reservationId,
                                            " confirmed successfully.">>])]

\* mutation of confirm_reservation_try: the membership test is left out, and the
\* subscript RESERVATIONS[reservationId] raises KeyError for an unknown id
confirm_reservation_try_no_lookup(store, reservationId, now) ==
    IF ~Hashable(reservationId)
    THEN [store |-> store,
          outcome |-> Raise([type |-> "TypeError", message |-> "unhashable type: 'list'"])]
    ELSE IF reservationId \notin DOMAIN store
    THEN [store |-> store,
          outcome |-> Raise([type |-> "KeyError", message |-> reservationId])]
    ELSE confirm_existing(store, reservationId, now)

\* the try block of confirm_reservation
confirm_reservation_try(store, reservationId, now) ==
    IF ~Hashable(reservationId)
    THEN [store |-> store,
          outcome |-> Raise([type |-> "TypeError", message |-> "unhashable type: 'list'"])]
    ELSE IF reservationId \notin DOMAIN store
    THEN [store |-> store,
          outcome |-> Raise(CheckoutError(<<"Reservation ID ", reservationId, " not found">>,
                                          "RESERVATION_NOT_FOUND",
                                          [reservationId |-> reservationId]))]
    ELSE confirm_existing(store, reservationId, now)

confirm_reservation(store, reservationId, now) ==
    ExceptClauses(confirm_reservation_try(store, reservationId, now), now,
                  "An unexpected error occurred during the confirmation process")

(***************************************************************************)
(* The stateless lookups: search_flights, get_payment_methods and          *)
(* get_card_benefits                                                       *)
(***************************************************************************)
\* f"{origin}-{destination}"
Route(origin, destination) == <<origin, "-", destination>>

\* MOCK_FLIGHTS of the travel server (each flight by airline and flight number)
FlightCatalogue ==
    [r \in {Route("JFK", "LHR")} |->
        << [airline |-> "British Airways", flight_number |-> "BA178"],
           [airline |-> "American Airlines", flight_number |-> "AA100"],
           [airline |-> "United Airlines", flight_number |-> "UA880"],
           [airline |-> "Delta", flight_number |-> "DL400"] >>]

\* MOCK_USERS of the wallet server (each payment method by card id and brand)
UserCatalogue ==
    [user1 |-> [name |-> "John Doe",
                payment_methods |->
                    << [card_id |-> "card_001", brand |-> "Chase Freedom"],
                       [card_id |-> "card_002", brand |-> "Chase Sapphire Preferred"] >>],
     user2 |-> [name |-> "Jane Smith",
                payment_methods |->
                    << [card_id |-> "card_003", brand |-> "Chase Freedom Unlimited"] >>]]

\* MOCK_CARD_BENEFITS of the benefits server (each card by id, name and annual fee)
BenefitsCatalogue ==
    [freedom |-> [card_id |-> "freedom", card_name |-> "Chase Freedom", annual_fee |-> 0],
     freedom_unlimited |-> [card_id |-> "freedom_unlimited",
                            card_name |-> "Chase Freedom Unlimited", annual_fee |-> 0],
     sapphire_preferred |-> [card_id |-> "sapphire_preferred",
                             card_name |-> "Chase Sapphire Preferred", annual_fee |-> 95],
     sapphire_reserve |-> [card_id |-> "sapphire_reserve",
                           card_name |-> "Chase Sapphire Reserve", annual_fee |-> 550]]

\* list(d.keys()); the order of the keys is not modelled
Keys(d) == DOMAIN d

\* inputs of the lookups
AirportInputs == {"", "JFK", "LHR", "SFO"}

UserIdInputs == {"", "user1", "user2", "user9"}

CardIdInputs == {"freedom", "freedom_unlimited", "sapphire_reserve", "amex_gold"}

\* the lists of at most MaxIds card ids
CardIdLists == UNION {[1..n -> CardIdInputs] : n \in 0..MaxIds}

\* TravelSearchError, PaymentMethodError, CardBenefitsError
LookupError(type, message, error_code, details) ==
    [type |-> type, message |-> message, error_code |-> error_code, details |-> details]

\* the two except clauses that close the try block of each lookup tool
ExceptLookup(type, outcome, now) ==
    IF outcome.kind = "return" THEN outcome
    ELSE IF outcome.exc.type = type
    THEN Raise(LookupError(type, outcome.exc.message, outcome.exc.error_code,
               DictMerge(outcome.exc.details,
                   [request_id |-> RequestId(now), timestamp |-> IsoFormat(now)])))
    ELSE Raise(LookupError(type, "An unexpected error occurred while processing the request",
               "INTERNAL_ERROR",
               [request_id |-> RequestId(now), timestamp |-> IsoFormat(now),
                error |-> outcome.exc.message]))

\* mutation of search_flights_internal: the route key is built destination first
search_flights_internal_reversed(flights, origin, destination) ==
    IF ~Truthy(origin) \/ ~Truthy(destination)
    THEN Raise(LookupError("TravelSearchError", "Missing origin or destination",
               "MISSING_ROUTE_INFO",
               [required |-> "Both origin and destination must be provided"]))
    ELSE LET route == Route(destination, origin) IN
         IF route \notin DOMAIN flights
         THEN Raise(LookupError("TravelSearchError", <<"No flights found for route ", route>>,
                    "ROUTE_NOT_FOUND",
                    [invalid_route |-> route, available_routes |-> Keys(flights)]))
         ELSE Return(flights[route])

search_flights_internal(flights, origin, destination) ==
    IF ~Truthy(origin) \/ ~Truthy(destination)
    THEN Raise(LookupError("TravelSearchError", "Missing origin or destination",
               "MISSING_ROUTE_INFO",
               [required |-> "Both origin and destination must be provided"]))
    ELSE LET route == Route(origin, destination) IN
         IF route \notin DOMAIN flights
         THEN Raise(LookupError("TravelSearchError", <<"No flights found for route ", route>>,
                    "ROUTE_NOT_FOUND",
                    [invalid_route |-> route, available_routes |-> Keys(flights)]))
         ELSE Return(flights[route])

\* the search_flights tool; departure_date and the optional arguments are not read
search_flights(flights, origin, destination, now) ==
    LET found == search_flights_internal(flights, origin, destination) IN
    ExceptLookup("TravelSearchError",
        IF found.kind = "return"
        THEN Return([flights |-> found.value, request_id |-> RequestId(now),
                     timestamp |-> IsoFormat(now)])
        ELSE found,
        now)

\* the try block of the get_payment_methods tool
get_payment_methods_try(users, user_id, now) ==
    IF user_id \notin DOMAIN users
    THEN Raise(LookupError("PaymentMethodError", <<"User ", user_id, " not found">>,
               "USER_NOT_FOUND",
               [invalid_user_id |-> user_id, valid_user_ids |-> Keys(users)]))
    ELSE Return([payment_methods |-> users[user_id].payment_methods,
                 request_id |-> RequestId(now), timestamp |-> IsoFormat(now)])

get_payment_methods(users, user_id, now) ==
    ExceptLookup("PaymentMethodError", get_payment_methods_try(users, user_id, now), now)

\* the catalogue entries of the ids of card_ids that are in the catalogue, in order
KnownBenefits(benefits, card_ids) ==
    LET known == SelectSeq(card_ids, LAMBDA id : id \in DOMAIN benefits)
    IN [i \in 1..Len(known) |-> benefits[known[i]]]

\* the ids of card_ids that are not in the catalogue, in order
InvalidCards(benefits, card_ids) ==
    SelectSeq(card_ids, LAMBDA id : id \notin DOMAIN benefits)

MissingCardIds ==
    Raise(LookupError("CardBenefitsError", "No card IDs provided", "MISSING_CARD_IDS",
          [required |-> "At least one card ID must be provided"]))

\* the helper get_card_benefits_internal, which the registered tool does not call
get_card_benefits_internal(benefits, card_ids) ==
    IF card_ids = <<>> THEN MissingCardIds
    ELSE IF InvalidCards(benefits, card_ids) # <<>>
    THEN Raise(LookupError("CardBenefitsError",
               <<"Invalid card IDs: ", InvalidCards(benefits, card_ids)>>,
               "INVALID_CARD_IDS",
               [invalid_cards |-> InvalidCards(benefits, card_ids),
                valid_cards |-> Keys(benefits)]))
    ELSE Return(KnownBenefits(benefits, card_ids))

\* the try block of the registered get_card_benefits tool: an id that is not in
\* the catalogue is logged and skipped
get_card_benefits_try(benefits, card_ids, now) ==
    IF card_ids = <<>> THEN MissingCardIds
    ELSE Return([cards |-> KnownBenefits(benefits, card_ids),
                 request_id |-> RequestId(now), timestamp |-> IsoFormat(now)])

get_card_benefits(benefits, card_ids, now) ==
    ExceptLookup("CardBenefitsError", get_card_benefits_try(benefits, card_ids, now), now)

(***************************************************************************)
(* State                                                                   *)
(***************************************************************************)
VARIABLES
    RESERVATIONS,   \* the server's dictionary of reservations
    clock,          \* datetime.now(): one tick per executed tool call, read by all its now() calls
    pc,             \* per session: "idle", or "calling" while its tool call is in flight
    req,            \* per session: the tool call in flight
    last,           \* per session: its last completed call (history)
    held,           \* per session: what its latest successful reserve_flight gave it (history)
    lastExec,       \* the call the server executed last (history)
    open,           \* per connection: the WebSocket connection is open
    inbox,          \* per connection: task messages received and not yet taken by the handler
    nsent,          \* per connection: task messages the client has sent so far
    hpc,            \* per connection: where the handler coroutine stands
    task,           \* per connection: the task message the handler is processing (0: none)
    produced,       \* per connection: chunks the agent stream of the task has yielded
    chunk,          \* per connection: the chunk the handler holds
    out,            \* per connection: what was sent to the client, in order
    cancelled,      \* CancellationTokens on which cancel() was called, as <<connection, task>>
    overtaken,      \* tasks that were being processed when a later message arrived (history)
    MOCK_FLIGHTS,   \* the flight catalogue of the travel server, keyed by route
    MOCK_USERS,     \* the user catalogue of the wallet server, keyed by user id
    MOCK_CARD_BENEFITS, \* the benefits catalogue of the benefits server, keyed by card id
    lookup          \* the lookup tool call executed last (history)

ckVars == <<RESERVATIONS, clock, pc, req, last, held, lastExec>>

gwVars == <<open, inbox, nsent, hpc, task, produced, chunk, out, cancelled, overtaken>>

lkVars == <<MOCK_FLIGHTS, MOCK_USERS, MOCK_CARD_BENEFITS, lookup>>

vars == <<RESERVATIONS, clock, pc, req, last, held, lastExec,
          open, inbox, nsent, hpc, task, produced, chunk, out, cancelled, overtaken,
          MOCK_FLIGHTS, MOCK_USERS, MOCK_CARD_BENEFITS, lookup>>

NoCall == [op |-> "none"]

NoHeld == [id |-> "none"]

\* no client has connected yet: every handler stands at its first receive
InitGateway ==
    /\ open = [c \in Conns |-> TRUE]
    /\ inbox = [c \in Conns |-> <<>>]
    /\ nsent = [c \in Conns |-> 0]
    /\ hpc = [c \in Conns |-> "recv"]
    /\ task = [c \in Conns |-> 0]
    /\ produced = [c \in Conns |-> 0]
    /\ chunk = [c \in Conns |-> ""]
    /\ out = [c \in Conns |-> <<>>]
    /\ cancelled = {}
    /\ overtaken = {}

\* the catalogues as the three lookup servers define them
InitLookup ==
    /\ MOCK_FLIGHTS = FlightCatalogue
    /\ MOCK_USERS = UserCatalogue
    /\ MOCK_CARD_BENEFITS = BenefitsCatalogue
    /\ lookup = NoCall

Init ==
    /\ InitGateway
    /\ InitLookup
    /\ RESERVATIONS = EmptyDict
    /\ clock = 0
    /\ pc = [s \in Sessions |-> "idle"]
    /\ req = [s \in Sessions |-> NoCall]
    /\ last = [s \in Sessions |-> NoCall]
    /\ held = [s \in Sessions |-> NoHeld]
    /\ lastExec = NoCall

\* calls in flight
InFlight == {s \in Sessions : pc[s] = "calling"}

\* a session sends a reserve_flight tool call to the server
CallReserve(s, a) ==
    /\ pc[s] = "idle"
    /\ clock + Cardinality(InFlight) < MaxCalls
    /\ pc' = [pc EXCEPT ![s] = "calling"]
    /\ req' = [req EXCEPT ![s] = [op |-> "reserve_flight", arg |-> a]]
    /\ UNCHANGED <<RESERVATIONS, clock, last, held, lastExec>>
    /\ UNCHANGED gwVars
    /\ UNCHANGED lkVars

\* a session sends a confirm_reservation tool call to the server
CallConfirm(s, id) ==
    /\ pc[s] = "idle"
    /\ clock + Cardinality(InFlight) < MaxCalls
    /\ pc' = [pc EXCEPT ![s] = "calling"]
    /\ req' = [req EXCEPT ![s] = [op |-> "confirm_reservation", arg |-> id]]
    /\ UNCHANGED <<RESERVATIONS, clock, last, held, lastExec>>
    /\ UNCHANGED gwVars
    /\ UNCHANGED lkVars

\* the record of an executed call
Executed(s, r, own) ==
    [session |-> s, op |-> req[s].op, arg |-> req[s].arg, outcome |-> r.outcome,
     pre |-> RESERVATIONS, post |-> r.store, own |-> own,
     overlap |-> {t \in Sessions \ {s} : pc[t] = "calling" /\ req[t] = req[s]},
     at |-> clock, closed |-> {c \in Conns : ~open[c]}]

\* the server's event loop runs the body of reserve_flight; it has no await, so it
\* runs from its first line to its return or raise without interleaving
ExecReserve(s) ==
    /\ pc[s] = "calling"
    /\ req[s].op = "reserve_flight"
    /\ clock < MaxCalls
    /\ LET r == reserve_flight(RESERVATIONS, req[s].arg, clock)
           e == Executed(s, r, FALSE)
       IN /\ RESERVATIONS' = r.store
          /\ last' = [last EXCEPT ![s] = e]
          /\ lastExec' = e
          /\ held' = [held EXCEPT ![s] =
                        IF r.outcome.kind = "return"
                        THEN [id |-> r.outcome.value.reservationId, fields |-> req[s].arg]
                        ELSE @]
    /\ clock' = clock + 1
    /\ pc' = [pc EXCEPT ![s] = "idle"]
    /\ req' = [req EXCEPT ![s] = NoCall]
    /\ UNCHANGED gwVars
    /\ UNCHANGED lkVars

\* the server's event loop runs the body of confirm_reservation (no await either)
ExecConfirm(s) ==
    /\ pc[s] = "calling"
    /\ req[s].op = "confirm_reservation"
    /\ clock < MaxCalls
    /\ LET r == confirm_reservation(RESERVATIONS, req[s].arg, clock)
           \* the session confirms the id its own reserve_flight, its previous call, gave it
           own == /\ last[s].op = "reserve_flight"
                  /\ last[s].outcome.kind = "return"
                  /\ last[s].outcome.value.reservationId = req[s].arg
           e == Executed(s, r, own)
       IN /\ RESERVATIONS' = r.store
          /\ last' = [last EXCEPT ![s] = e]
          /\ lastExec' = e
    /\ clock' = clock + 1
    /\ pc' = [pc EXCEPT ![s] = "idle"]
    /\ req' = [req EXCEPT ![s] = NoCall]
    /\ UNCHANGED held
    /\ UNCHANGED gwVars
    /\ UNCHANGED lkVars

Next ==
    \/ \E s \in Sessions, a \in BookingRequests : CallReserve(s, a)
    \/ \E s \in Sessions, id \in ReservationIds : CallConfirm(s, id)
    \/ \E s \in Sessions : ExecReserve(s)
    \/ \E s \in Sessions : ExecConfirm(s)

Spec == Init /\ [][Next]_vars

(***************************************************************************)
(* The WebSocket connection handler (start_websocket_server.handler)       *)
(***************************************************************************)
\* the values agent.run_stream yields: "" stands for a falsy chunk
ChunkValues == {"", "message"}

\* the handler is processing a task
Busy(c) == hpc[c] \in {"stream", "send", "send_error"}

\* str(chunk), as sent to the client
ChunkSent(k, n, v) == [task |-> k, kind |-> "chunk", seq |-> n, text |-> <<"str", v>>]

\* f"Error: {error_msg}", as sent to the client
ErrorSent(k) == [task |-> k, kind |-> "error", seq |-> 0, text |-> <<"Error: ", k>>]

\* the client sends a task message; the connection buffers it until the handler
\* asks for the next message
ClientSend(c) ==
    /\ open[c]
    /\ hpc[c] # "finished"
    /\ nsent[c] < MaxTasks
    /\ nsent' = [nsent EXCEPT ![c] = @ + 1]
    /\ inbox' = [inbox EXCEPT ![c] = Append(@, nsent[c] + 1)]
    /\ overtaken' = IF Busy(c) THEN overtaken \cup {<<c, task[c]>>} ELSE overtaken
    /\ UNCHANGED <<open, hpc, task, produced, chunk, out, cancelled>>
    /\ UNCHANGED ckVars
    /\ UNCHANGED lkVars

\* the client closes the connection, or it drops
ClientClose(c) ==
    /\ open[c]
    /\ open' = [open EXCEPT ![c] = FALSE]
    /\ UNCHANGED <<inbox, nsent, hpc, task, produced, chunk, out, cancelled, overtaken>>
    /\ UNCHANGED ckVars
    /\ UNCHANGED lkVars

\* mutation of Recv: the newest buffered message is taken instead of the oldest
Recv_newest_first(c) ==
    /\ hpc[c] = "recv"
    /\ inbox[c] # <<>>
    /\ task' = [task EXCEPT ![c] = inbox[c][Len(inbox[c])]]
    /\ inbox' = [inbox EXCEPT ![c] = SubSeq(@, 1, Len(@) - 1)]
    /\ produced' = [produced EXCEPT ![c] = 0]
    /\ hpc' = [hpc EXCEPT ![c] = "stream"]
    /\ UNCHANGED <<open, nsent, chunk, out, cancelled, overtaken>>
    /\ UNCHANGED ckVars
    /\ UNCHANGED lkVars

\* mutation of Recv: the next message is taken as soon as it has arrived, whether
\* or not a task is being processed
Recv_while_busy(c) ==
    /\ hpc[c] \in {"recv", "stream", "send", "send_error"}
    /\ inbox[c] # <<>>
    /\ task' = [task EXCEPT ![c] = Head(inbox[c])]
    /\ inbox' = [inbox EXCEPT ![c] = Tail(@)]
    /\ produced' = [produced EXCEPT ![c] = 0]
    /\ hpc' = [hpc EXCEPT ![c] = "stream"]
    /\ UNCHANGED <<open, nsent, chunk, out, cancelled, overtaken>>
    /\ UNCHANGED ckVars
    /\ UNCHANGED lkVars

\* async for message in websocket: the next message is taken, and
\* agent.run_stream(task=message, cancellation_token=CancellationToken()) is started
Recv(c) ==
    /\ hpc[c] = "recv"
    /\ inbox[c] # <<>>
    /\ task' = [task EXCEPT ![c] = Head(inbox[c])]
    /\ inbox' = [inbox EXCEPT ![c] = Tail(@)]
    /\ produced' = [produced EXCEPT ![c] = 0]
    /\ hpc' = [hpc EXCEPT ![c] = "stream"]
    /\ UNCHANGED <<open, nsent, chunk, out, cancelled, overtaken>>
    /\ UNCHANGED ckVars
    /\ UNCHANGED lkVars

\* mutation of RecvClosed: the handler has no outer except clauses, and the
\* ConnectionClosed of the receive leaves the handler
RecvClosed_uncaught(c) ==
    /\ hpc[c] = "recv"
    /\ ~open[c]
    /\ hpc' = [hpc EXCEPT ![c] = "raised"]
    /\ task' = [task EXCEPT ![c] = 0]
    /\ UNCHANGED <<open, inbox, nsent, produced, chunk, out, cancelled, overtaken>>
    /\ UNCHANGED ckVars
    /\ UNCHANGED lkVars

\* async for message in websocket on a closed connection: the loop ends or raises
\* ConnectionClosed; both lead through the except clauses to the finally clause
RecvClosed(c) ==
    /\ hpc[c] = "recv"
    /\ ~open[c]
    /\ hpc' = [hpc EXCEPT ![c] = "finished"]
    /\ task' = [task EXCEPT ![c] = 0]
    /\ UNCHANGED <<open, inbox, nsent, produced, chunk, out, cancelled, overtaken>>
    /\ UNCHANGED ckVars
    /\ UNCHANGED lkVars

\* the agent stream yields a chunk; "if chunk:" skips a falsy one
AgentYield(c, v) ==
    /\ hpc[c] = "stream"
    /\ produced[c] < MaxChunks
    /\ produced' = [produced EXCEPT ![c] = @ + 1]
    /\ chunk' = [chunk EXCEPT ![c] = v]
    /\ hpc' = [hpc EXCEPT ![c] = IF Truthy(v) THEN "send" ELSE "stream"]
    /\ UNCHANGED <<open, inbox, nsent, task, out, cancelled, overtaken>>
    /\ UNCHANGED ckVars
    /\ UNCHANGED lkVars

\* the agent stream ends: "Response processing completed", back to the receive
AgentEnd(c) ==
    /\ hpc[c] = "stream"
    /\ hpc' = [hpc EXCEPT ![c] = "recv"]
    /\ task' = [task EXCEPT ![c] = 0]
    /\ UNCHANGED <<open, inbox, nsent, produced, chunk, out, cancelled, overtaken>>
    /\ UNCHANGED ckVars
    /\ UNCHANGED lkVars

\* the agent stream raises: the handler's inner except clause takes over
AgentRaise(c) ==
    /\ hpc[c] = "stream"
    /\ hpc' = [hpc EXCEPT ![c] = "send_error"]
    /\ UNCHANGED <<open, inbox, nsent, task, produced, chunk, out, cancelled, overtaken>>
    /\ UNCHANGED ckVars
    /\ UNCHANGED lkVars

\* mutation of Send: the chunk goes out whether or not the connection is open
Send_on_closed(c) ==
    /\ hpc[c] = "send"
    /\ out' = [out EXCEPT ![c] = Append(@, ChunkSent(task[c], produced[c], chunk[c]))]
    /\ hpc' = [hpc EXCEPT ![c] = "stream"]
    /\ task' = task
    /\ UNCHANGED <<open, inbox, nsent, produced, chunk, cancelled, overtaken>>
    /\ UNCHANGED ckVars
    /\ UNCHANGED lkVars

\* await websocket.send(chunk_str): on a closed connection it raises, and the
\* except clause breaks out of the stream loop
Send(c) ==
    /\ hpc[c] = "send"
    /\ IF open[c]
       THEN /\ out' = [out EXCEPT ![c] = Append(@, ChunkSent(task[c], produced[c], chunk[c]))]
            /\ hpc' = [hpc EXCEPT ![c] = "stream"]
            /\ task' = task
       ELSE /\ out' = out
            /\ hpc' = [hpc EXCEPT ![c] = "recv"]
            /\ task' = [task EXCEPT ![c] = 0]
    /\ UNCHANGED <<open, inbox, nsent, produced, chunk, cancelled, overtaken>>
    /\ UNCHANGED ckVars
    /\ UNCHANGED lkVars

\* mutation of SendError: the handler leaves the message loop after it has sent
\* the error message
SendError_then_leave(c) ==
    /\ hpc[c] = "send_error"
    /\ out' = IF open[c] THEN [out EXCEPT ![c] = Append(@, ErrorSent(task[c]))] ELSE out
    /\ hpc' = [hpc EXCEPT ![c] = "finished"]
    /\ task' = [task EXCEPT ![c] = 0]
    /\ UNCHANGED <<open, inbox, nsent, produced, chunk, cancelled, overtaken>>
    /\ UNCHANGED ckVars
    /\ UNCHANGED lkVars

\* await websocket.send(f"Error: {error_msg}"): on a closed connection it raises
\* ConnectionClosed, and the except clause breaks out of the message loop
SendError(c) ==
    /\ hpc[c] = "send_error"
    /\ IF open[c]
       THEN /\ out' = [out EXCEPT ![c] = Append(@, ErrorSent(task[c]))]
            /\ hpc' = [hpc EXCEPT ![c] = "recv"]
       ELSE /\ out' = out
            /\ hpc' = [hpc EXCEPT ![c] = "finished"]
    /\ task' = [task EXCEPT ![c] = 0]
    /\ UNCHANGED <<open, inbox, nsent, produced, chunk, cancelled, overtaken>>
    /\ UNCHANGED ckVars
    /\ UNCHANGED lkVars

NextGateway ==
    \/ \E c \in Conns : ClientSend(c)
    \/ \E c \in Conns : ClientClose(c)
    \/ \E c \in Conns : Recv(c)
    \/ \E c \in Conns : RecvClosed(c)
    \/ \E c \in Conns, v \in ChunkValues : AgentYield(c, v)
    \/ \E c \in Conns : AgentEnd(c)
    \/ \E c \in Conns : AgentRaise(c)
    \/ \E c \in Conns : Send(c)
    \/ \E c \in Conns : SendError(c)

SpecGateway == Init /\ [][NextGateway]_vars

\* the event loop resumes the handler once the await it stands at can complete:
\* the receive when a message is buffered or the connection is closed, the two
\* sends always (they complete or raise)
HandlerFairness ==
    \A c \in Conns :
        /\ WF_vars(Recv(c) \/ RecvClosed(c))
        /\ WF_vars(Send(c))
        /\ WF_vars(SendError(c))

SpecGatewayLive == Init /\ [][NextGateway]_vars /\ HandlerFairness

(***************************************************************************)
(* The lookup servers: each tool call runs to its return or raise          *)
(***************************************************************************)
Looked(tool, arg, outcome) == [op |-> tool, arg |-> arg, outcome |-> outcome, at |-> clock]

SearchFlights(origin, destination) ==
    /\ clock < MaxCalls
    /\ lookup' = Looked("search_flights", <<origin, destination>>,
                        search_flights(MOCK_FLIGHTS, origin, destination, clock))
    /\ clock' = clock + 1
    /\ UNCHANGED <<MOCK_FLIGHTS, MOCK_USERS, MOCK_CARD_BENEFITS>>
    /\ UNCHANGED <<RESERVATIONS, pc, req, last, held, lastExec>>
    /\ UNCHANGED gwVars

GetPaymentMethods(user_id) ==
    /\ clock < MaxCalls
    /\ lookup' = Looked("get_payment_methods", user_id,
                        get_payment_methods(MOCK_USERS, user_id, clock))
    /\ clock' = clock + 1
    /\ UNCHANGED <<MOCK_FLIGHTS, MOCK_USERS, MOCK_CARD_BENEFITS>>
    /\ UNCHANGED <<RESERVATIONS, pc, req, last, held, lastExec>>
    /\ UNCHANGED gwVars

GetCardBenefits(card_ids) ==
    /\ clock < MaxCalls
    /\ lookup' = Looked("get_card_benefits", card_ids,
                        get_card_benefits(MOCK_CARD_BENEFITS, card_ids, clock))
    /\ clock' = clock + 1
    /\ UNCHANGED <<MOCK_FLIGHTS, MOCK_USERS, MOCK_CARD_BENEFITS>>
    /\ UNCHANGED <<RESERVATIONS, pc, req, last, held, lastExec>>
    /\ UNCHANGED gwVars

NextLookup ==
    \/ \E origin \in AirportInputs, destination \in AirportInputs :
          SearchFlights(origin, destination)
    \/ \E user_id \in UserIdInputs : GetPaymentMethods(user_id)
    \/ \E card_ids \in CardIdLists : GetCardBenefits(card_ids)

SpecLookup == Init /\ [][NextLookup]_vars

(***************************************************************************)
(* Reading the history                                                     *)
(***************************************************************************)
\* a step in which the server executed a tool call
Executes == clock' # clock

IsReturn(e, status) ==
    /\ e.outcome.kind = "return"
    /\ e.outcome.value.reservationStatus = status

IsError(e, code) ==
    /\ e.outcome.kind = "raise"
    /\ e.outcome.exc.error_code = code

StatusIn(store, id) == store[id].reservationStatus

(***************************************************************************)
(* The race of two confirm_reservation calls on one PENDING reservation:   *)
(* the store holds the reservation one reserve_flight created, and each    *)
(* session calls confirm_reservation once.                                 *)
(***************************************************************************)
InitRace ==
    /\ \E a \in {b \in BookingRequests : HasRequiredDetails(b)} :
          RESERVATIONS = reserve_flight(EmptyDict, a, 0).store
    /\ InitGateway
    /\ InitLookup
    /\ clock = 1
    /\ pc = [s \in Sessions |-> "idle"]
    /\ req = [s \in Sessions |-> NoCall]
    /\ last = [s \in Sessions |-> NoCall]
    /\ held = [s \in Sessions |-> NoHeld]
    /\ lastExec = NoCall

RaceCall(s, id) ==
    /\ last[s] = NoCall
    /\ CallConfirm(s, id)

NextRace ==
    \/ \E s \in Sessions, id \in ReservationIds : RaceCall(s, id)
    \/ \E s \in Sessions : ExecConfirm(s)

SpecRace == InitRace /\ [][NextRace]_vars

(***************************************************************************)
(* The checkout server when a caller may also pass a list as reservationId *)
(***************************************************************************)
NextUntyped ==
    \/ Next
    \/ \E s \in Sessions : CallConfirm(s, ListArgument)

SpecUntyped == Init /\ [][NextUntyped]_vars

(***************************************************************************)
(* A dropped connection and a later confirm_reservation: the store holds   *)
(* one PENDING reservation, the gateway serves its connection, and a       *)
(* caller issues confirm_reservation once, at any moment.                  *)
(***************************************************************************)
InitDisconnect ==
    /\ InitRace
    /\ RESERVATIONS = reserve_flight(EmptyDict, ValidRequestA, 0).store

NextDisconnect ==
    \/ NextGateway
    \/ \E id \in ReservationIds : RaceCall("s1", id)
    \/ ExecConfirm("s1")

SpecDisconnect == InitDisconnect /\ [][NextDisconnect]_vars

(***************************************************************************)
(* Claims                                                                  *)
(***************************************************************************)

\* C1: confirm_reservation on a PENDING reservation returns CONFIRMED and stores
\* CONFIRMED; a confirm_reservation on the same id executed directly after a
\* successful one fails with RESERVATION_NOT_PENDING and leaves the store as it
\* was (still CONFIRMED, same confirmed_at).
C1_ConfirmThenConfirmAgain ==
    [][ (Executes /\ lastExec'.op = "confirm_reservation") =>
          LET e == lastExec'
              id == e.arg
          IN /\ (id \in DOMAIN RESERVATIONS /\ StatusIn(RESERVATIONS, id) = "PENDING")
                   => /\ IsReturn(e, "CONFIRMED")
                      /\ e.outcome.value.reservationId = id
                      /\ StatusIn(RESERVATIONS', id) = "CONFIRMED"
             /\ (lastExec.op = "confirm_reservation" /\ lastExec.arg = id
                    /\ lastExec.outcome.kind = "return")
                   => /\ IsError(e, "RESERVATION_NOT_PENDING")
                      /\ RESERVATIONS' = RESERVATIONS
                      /\ StatusIn(RESERVATIONS', id) = "CONFIRMED" ]_vars

\* C1 witness: a second confirm was executed directly after the successful one
\* (the stored confirmed_at is the tick of the call before it) and was rejected
C1_Witness ==
    /\ lastExec.op = "confirm_reservation"
    /\ IsError(lastExec, "RESERVATION_NOT_PENDING")
    /\ lastExec.pre[lastExec.arg].confirmed_at = clock - 2
    /\ RESERVATIONS[lastExec.arg].reservationStatus = "CONFIRMED"

\* C2: a successful reserve_flight stores its reservation under an id that was
\* not in the store before the call and leaves every existing entry as it was.
C2_ReserveCreatesFreshEntry ==
    (lastExec.op = "reserve_flight" /\ lastExec.outcome.kind = "return") =>
        /\ lastExec.outcome.value.reservationId \notin DOMAIN lastExec.pre
        /\ \A id \in DOMAIN lastExec.pre :
              id \in DOMAIN lastExec.post /\ lastExec.post[id] = lastExec.pre[id]

\* C3: a reservation id whose status is not PENDING keeps that status in every
\* later state.
C3_TerminalStatusIsFinal ==
    [][ \A id \in DOMAIN RESERVATIONS :
          StatusIn(RESERVATIONS, id) # "PENDING" =>
             /\ id \in DOMAIN RESERVATIONS'
             /\ StatusIn(RESERVATIONS', id) = StatusIn(RESERVATIONS, id) ]_vars

\* C4: when both sessions have confirmed the same id, PENDING at the start, then
\* in every order in which the server ran the two calls (in flight together or
\* not) one call returned CONFIRMED and the other failed with
\* RESERVATION_NOT_PENDING; in no interleaving both returned CONFIRMED.
C4_OneConfirmWins ==
    \A s, t \in Sessions :
        (/\ s # t
         /\ last[s].op = "confirm_reservation"
         /\ last[t].op = "confirm_reservation"
         /\ last[s].arg = last[t].arg
         /\ last[s].arg \in DOMAIN RESERVATIONS)
        => /\ ~(IsReturn(last[s], "CONFIRMED") /\ IsReturn(last[t], "CONFIRMED"))
           /\ \/ IsReturn(last[s], "CONFIRMED") /\ IsError(last[t], "RESERVATION_NOT_PENDING")
              \/ IsReturn(last[t], "CONFIRMED") /\ IsError(last[s], "RESERVATION_NOT_PENDING")

\* C4 witness: both confirms are done, and the first ran while the other was in flight
C4_Witness ==
    /\ last["s1"].op = "confirm_reservation"
    /\ last["s2"].op = "confirm_reservation"
    /\ last["s1"].arg = MockReservationId
    /\ last["s2"].arg = MockReservationId
    /\ "s1" \in last["s2"].overlap
    /\ IsReturn(last["s2"], "CONFIRMED")
    /\ IsError(last["s1"], "RESERVATION_NOT_PENDING")

\* C5: a reserve_flight with one of the six booking fields missing or empty fails
\* with MISSING_DETAILS and writes nothing to the store.
C5_MissingFieldRejected ==
    (lastExec.op = "reserve_flight" /\ \E f \in BookingFields : IsMissing(lastExec.arg, f)) =>
        /\ IsError(lastExec, "MISSING_DETAILS")
        /\ lastExec.post = lastExec.pre

\* C6: a session that confirms the id its own reserve_flight just gave it succeeds,
\* and the reservation then holds the booking fields that session passed in.
C6_SessionsDoNotInterfere ==
    \A s \in Sessions :
        (last[s].op = "confirm_reservation" /\ last[s].own) =>
            /\ IsReturn(last[s], "CONFIRMED")
            /\ \A f \in BookingFields : last[s].post[last[s].arg][f] = held[s].fields[f]

\* C7: confirm_reservation on an id that is not in the store fails with
\* RESERVATION_NOT_FOUND, never with INTERNAL_ERROR, and never returns.
C7_UnknownIdNotFound ==
    (lastExec.op = "confirm_reservation" /\ lastExec.arg \notin DOMAIN lastExec.pre) =>
        /\ IsError(lastExec, "RESERVATION_NOT_FOUND")
        /\ lastExec.outcome.exc.error_code # "INTERNAL_ERROR"

\* C7 witness: an unknown id was confirmed while the store held a reservation
C7_Witness ==
    /\ lastExec.op = "confirm_reservation"
    /\ lastExec.arg \notin DOMAIN lastExec.pre
    /\ lastExec.pre # EmptyDict
    /\ IsError(lastExec, "RESERVATION_NOT_FOUND")

\* C8: a RESERVATION_NOT_PENDING error carries, as details.current_status, the
\* status the store held for that reservation when the call was made.
C8_NotPendingCarriesStatus ==
    (lastExec.op = "confirm_reservation" /\ IsError(lastExec, "RESERVATION_NOT_PENDING")) =>
        /\ "current_status" \in DOMAIN lastExec.outcome.exc.details
        /\ lastExec.outcome.exc.details.current_status = StatusIn(lastExec.pre, lastExec.arg)
        /\ lastExec.outcome.exc.details.reservationId = lastExec.arg

\* C8 witness: a confirm was rejected with current_status CONFIRMED
C8_Witness ==
    /\ lastExec.op = "confirm_reservation"
    /\ IsError(lastExec, "RESERVATION_NOT_PENDING")
    /\ lastExec.outcome.exc.details.current_status = "CONFIRMED"
    /\ StatusIn(lastExec.pre, lastExec.arg) = "CONFIRMED"

\* C9: a tool call that ends in an error leaves the whole store as it was before
\* the call.
C9_ErrorLeavesStoreUnchanged ==
    [][ (Executes /\ lastExec'.outcome.kind = "raise") => RESERVATIONS' = RESERVATIONS ]_vars

\* C9 witness: a reserve_flight and a confirm_reservation both failed on a store
\* that holds a reservation
C9_Witness ==
    /\ lastExec.op = "reserve_flight"
    /\ IsError(lastExec, "MISSING_DETAILS")
    /\ lastExec.pre # EmptyDict
    /\ \E s \in Sessions :
          /\ last[s].op = "confirm_reservation"
          /\ last[s].outcome.kind = "raise"
          /\ last[s].pre # EmptyDict

\* C10: a task that was being processed when a later task message arrived is
\* cancelled before the later task is started, and no chunk of it is sent to the
\* client once the later message has arrived.
C10_NewTaskCancelsEarlier ==
    [][ \A c \in Conns : \A k \in 1..MaxTasks :
          <<c, k>> \in overtaken =>
             /\ (Len(out'[c]) > Len(out[c])) => out'[c][Len(out'[c])].task # k
             /\ (hpc[c] = "recv" /\ hpc'[c] = "stream") => <<c, k>> \in cancelled ]_vars

\* the entries of out[c] that are streamed chunks
IsChunk(x) == x.kind = "chunk"

\* C11: on one connection the chunks reach the client in the order the agent
\* stream yielded them, and every chunk of task k precedes every chunk of a later
\* task.
C11_ChunksInOrder ==
    \A c \in Conns : \A i, j \in 1..Len(out[c]) :
        (i < j /\ IsChunk(out[c][i]) /\ IsChunk(out[c][j])) =>
            \/ out[c][i].task < out[c][j].task
            \/ out[c][i].task = out[c][j].task /\ out[c][i].seq < out[c][j].seq

\* C11 witness: two chunks of task 1 were sent, then a chunk of task 2
C11_Witness ==
    /\ Len(out["c1"]) = 3
    /\ out["c1"][1] = ChunkSent(1, 1, "message")
    /\ out["c1"][2] = ChunkSent(1, 2, "message")
    /\ out["c1"][3].task = 2
    /\ IsChunk(out["c1"][3])

\* C12: when the agent stream of a task raises, the handler sends an error chunk
\* and, the connection being open, goes back to receiving the next message; the
\* handler never finishes while its connection is open.
C12_ErrorKeepsSession ==
    [][ \A c \in Conns :
          /\ (hpc[c] = "stream" /\ hpc'[c] \notin {"stream", "send", "recv"})
                => hpc'[c] = "send_error"
          /\ (hpc[c] = "send_error" /\ hpc'[c] # "send_error" /\ open[c])
                => /\ out'[c] = Append(out[c], ErrorSent(task[c]))
                   /\ hpc'[c] = "recv"
          /\ (hpc[c] # "finished" /\ hpc'[c] = "finished") => ~open[c] ]_vars

\* C12 witness: task 1 ended in an error chunk and a chunk of task 2 was sent after it
C12_Witness ==
    /\ Len(out["c1"]) >= 2
    /\ out["c1"][1] = ErrorSent(1)
    /\ out["c1"][2].task = 2
    /\ IsChunk(out["c1"][2])
    /\ open["c1"]

\* C14: a task whose agent stream ends normally on an open connection is
\* terminated by an end-of-task marker sent to the client.
C14_EndOfTaskMarker ==
    [][ \A c \in Conns :
          (hpc[c] = "stream" /\ hpc'[c] = "recv" /\ open[c]) =>
             /\ Len(out'[c]) = Len(out[c]) + 1
             /\ out'[c][Len(out'[c])].kind = "end"
             /\ out'[c][Len(out'[c])].task = task[c] ]_vars

\* C15: once a connection is closed nothing more is sent on it; the step that
\* closes it, and every later step of its handler, leaves the reservation store as
\* it was; and a confirm_reservation run after the drop on a reservation that is
\* still PENDING returns CONFIRMED.
C15_DisconnectKeepsStore ==
    [][ \A c \in Conns :
          /\ ~open[c] => out'[c] = out[c]
          /\ (open[c] /\ ~open'[c]) => RESERVATIONS' = RESERVATIONS
          /\ (~open[c] /\ hpc'[c] # hpc[c]) => RESERVATIONS' = RESERVATIONS
          /\ (/\ ~open[c]
              /\ Executes
              /\ lastExec'.op = "confirm_reservation"
              /\ lastExec'.arg \in DOMAIN RESERVATIONS
              /\ StatusIn(RESERVATIONS, lastExec'.arg) = "PENDING")
                => /\ IsReturn(lastExec', "CONFIRMED")
                   /\ StatusIn(RESERVATIONS', lastExec'.arg) = "CONFIRMED" ]_vars

\* C15 witness: the connection dropped while a chunk was waiting to be sent, its
\* handler has finished, and a confirm_reservation run after the drop succeeded
C15_Witness ==
    /\ ~open["c1"]
    /\ hpc["c1"] = "finished"
    /\ produced["c1"] > Len(out["c1"])
    /\ chunk["c1"] = "message"
    /\ lastExec.op = "confirm_reservation"
    /\ "c1" \in lastExec.closed
    /\ IsReturn(lastExec, "CONFIRMED")

\* C16: get_card_benefits fails with MISSING_CARD_IDS for an empty list, fails
\* with INVALID_CARD_IDS when at least one requested id is not in the catalogue,
\* and otherwise returns the catalogue entry of every requested id in request
\* order.
C16_InvalidCardIdsRejected ==
    lookup.op = "get_card_benefits" =>
        LET card_ids == lookup.arg IN
        IF card_ids = <<>>
        THEN IsError(lookup, "MISSING_CARD_IDS")
        ELSE IF \E i \in 1..Len(card_ids) : card_ids[i] \notin DOMAIN MOCK_CARD_BENEFITS
        THEN IsError(lookup, "INVALID_CARD_IDS")
        ELSE /\ lookup.outcome.kind = "return"
             /\ lookup.outcome.value.cards =
                    [i \in 1..Len(card_ids) |-> MOCK_CARD_BENEFITS[card_ids[i]]]

\* C18: search_flights returns the catalogue's flights exactly when the key
\* origin-destination is in the catalogue, fails with MISSING_ROUTE_INFO when
\* origin or destination is empty and with ROUTE_NOT_FOUND otherwise;
\* get_payment_methods returns the user's payment methods exactly when the user
\* id is in the catalogue and fails with USER_NOT_FOUND otherwise; the catalogues
\* stay as they were defined.
C18_LookupsAreKeyedReads ==
    /\ MOCK_FLIGHTS = FlightCatalogue
    /\ MOCK_USERS = UserCatalogue
    /\ lookup.op = "search_flights" =>
          LET origin == lookup.arg[1]
              destination == lookup.arg[2]
              key == <<origin, "-", destination>>
          IN /\ (origin = "" \/ destination = "") => IsError(lookup, "MISSING_ROUTE_INFO")
             /\ (origin # "" /\ destination # "" /\ key \notin DOMAIN MOCK_FLIGHTS)
                   => IsError(lookup, "ROUTE_NOT_FOUND")
             /\ key \in DOMAIN MOCK_FLIGHTS
                   => /\ lookup.outcome.kind = "return"
                      /\ lookup.outcome.value.flights = MOCK_FLIGHTS[key]
             /\ lookup.outcome.kind = "return" => key \in DOMAIN MOCK_FLIGHTS
    /\ lookup.op = "get_payment_methods" =>
          LET user_id == lookup.arg IN
          IF user_id \in DOMAIN MOCK_USERS
          THEN /\ lookup.outcome.kind = "return"
               /\ lookup.outcome.value.payment_methods = MOCK_USERS[user_id].payment_methods
          ELSE IsError(lookup, "USER_NOT_FOUND")

\* C18 witness: after an earlier lookup, the route of the catalogue asked in the
\* opposite direction was not found
C18_Witness ==
    /\ lookup.op = "search_flights"
    /\ lookup.arg = <<"LHR", "JFK">>
    /\ lookup.at > 0
    /\ IsError(lookup, "ROUTE_NOT_FOUND")
    /\ lookup.outcome.exc.details.invalid_route = <<"LHR", "-", "JFK">>

\* C17: a successful reserve_flight returns PENDING and an id whose store entry
\* is PENDING and holds the booking fields passed in; a successful
\* confirm_reservation returns CONFIRMED for the id it was given, and the store
\* entry of that id is CONFIRMED when it returns.
C17_ResultsMatchStore ==
    /\ (lastExec.op = "reserve_flight" /\ lastExec.outcome.kind = "return") =>
          LET id == lastExec.outcome.value.reservationId IN
          /\ lastExec.outcome.value.reservationStatus = "PENDING"
          /\ id \in DOMAIN RESERVATIONS
          /\ StatusIn(RESERVATIONS, id) = "PENDING"
          /\ \A f \in BookingFields : RESERVATIONS[id][f] = lastExec.arg[f]
    /\ (lastExec.op = "confirm_reservation" /\ lastExec.outcome.kind = "return") =>
          /\ lastExec.outcome.value.reservationStatus = "CONFIRMED"
          /\ lastExec.outcome.value.reservationId = lastExec.arg
          /\ StatusIn(RESERVATIONS, lastExec.arg) = "CONFIRMED"

\* C17 witness: both sessions had a successful call, a reserve_flight and then a
\* confirm_reservation
C17_Witness ==
    /\ lastExec.op = "confirm_reservation"
    /\ IsReturn(lastExec, "CONFIRMED")
    /\ \E s \in Sessions :
          /\ s # lastExec.session
          /\ last[s].op = "reserve_flight"
          /\ IsReturn(last[s], "PENDING")
          /\ last[s].arg = ValidRequestB

\* the keys of a reservation that a confirmation may change
ConfirmationKeys == {"reservationStatus", "confirmed_at"}

\* C19: a successful confirm_reservation changes only reservationStatus and
\* confirmed_at of its reservation: the booking fields and created_at of that
\* reservation, and every other entry of the store, are as before.
C19_ConfirmChangesOnlyStatus ==
    [][ (Executes /\ lastExec'.op = "confirm_reservation" /\ lastExec'.outcome.kind = "return") =>
          LET id == lastExec'.arg IN
          /\ DOMAIN RESERVATIONS' = DOMAIN RESERVATIONS
          /\ \A other \in DOMAIN RESERVATIONS \ {id} : RESERVATIONS'[other] = RESERVATIONS[other]
          /\ DOMAIN RESERVATIONS'[id] = DOMAIN RESERVATIONS[id] \cup {"confirmed_at"}
          /\ \A k \in DOMAIN RESERVATIONS[id] \ ConfirmationKeys :
                RESERVATIONS'[id][k] = RESERVATIONS[id][k] ]_vars

\* C19 witness: a reservation created at one tick was confirmed at a later one
\* and still holds its booking fields and created_at
C19_Witness ==
    /\ lastExec.op = "confirm_reservation"
    /\ IsReturn(lastExec, "CONFIRMED")
    /\ RESERVATIONS[lastExec.arg].created_at < RESERVATIONS[lastExec.arg].confirmed_at
    /\ RESERVATIONS[lastExec.arg].created_at = lastExec.pre[lastExec.arg].created_at
    /\ \A f \in BookingFields : RESERVATIONS[lastExec.arg][f] = ValidRequestB[f]

\* what the try block of the executed call raised or returned
InTryBlock(e) ==
    IF e.op = "reserve_flight"
    THEN reserve_flight_try(e.pre, e.arg, e.at).outcome
    ELSE confirm_reservation_try(e.pre, e.arg, e.at).outcome

\* the keys the except clause adds to the details
AddedKeys == {"request_id", "timestamp"}

\* C20: a CheckoutError raised in the try block of a tool reaches the caller with
\* the same error code and message and with every original detail entry, only
\* request_id and timestamp being added; INTERNAL_ERROR reaches the caller only
\* for an exception that is not a CheckoutError; a returned result is returned.
C20_ErrorsPassThrough ==
    lastExec.op # "none" =>
        LET inner == InTryBlock(lastExec)
            outer == lastExec.outcome
        IN /\ inner.kind = "return" => outer = inner
           /\ inner.kind = "raise" =>
                /\ outer.kind = "raise"
                /\ inner.exc.type = "CheckoutError" =>
                      /\ outer.exc.error_code = inner.exc.error_code
                      /\ outer.exc.message = inner.exc.message
                      /\ \A k \in DOMAIN inner.exc.details :
                            /\ k \in DOMAIN outer.exc.details
                            /\ outer.exc.details[k] = inner.exc.details[k]
                      /\ DOMAIN outer.exc.details = DOMAIN inner.exc.details \cup AddedKeys
                /\ inner.exc.type # "CheckoutError" => outer.exc.error_code = "INTERNAL_ERROR"
                /\ outer.exc.error_code = "INTERNAL_ERROR" => inner.exc.type # "CheckoutError"

\* C20 witness: one session got RESERVATION_NOT_FOUND with the id in its details
\* while a reservation was stored, and the other then got INTERNAL_ERROR for a
\* list argument
C20_Witness ==
    /\ lastExec.op = "confirm_reservation"
    /\ lastExec.arg = ListArgument
    /\ IsError(lastExec, "INTERNAL_ERROR")
    /\ RESERVATIONS # EmptyDict
    /\ \E s \in Sessions :
          /\ last[s].op = "confirm_reservation"
          /\ IsError(last[s], "RESERVATION_NOT_FOUND")
          /\ last[s].outcome.exc.details.reservationId = "unknown-id"
          /\ AddedKeys \subseteq DOMAIN last[s].outcome.exc.details

\* C21: the store holds at most one reservation, keyed by the fixed id
\* 55f0b400-e29b-41d4-a716-446655440000, and every successful reserve_flight
\* returned that id whatever its arguments were.
C21_SingleFixedId ==
    /\ DOMAIN RESERVATIONS \subseteq {MockReservationId}
    /\ Cardinality(DOMAIN RESERVATIONS) <= 1
    /\ \A s \in Sessions :
          (last[s].op = "reserve_flight" /\ last[s].outcome.kind = "return")
             => last[s].outcome.value.reservationId = MockReservationId

\* C21 witness: the two sessions reserved different flights one after the other,
\* both got the fixed id, and the store holds one reservation, the later flight
C21_Witness ==
    /\ last["s1"].op = "reserve_flight"
    /\ last["s2"].op = "reserve_flight"
    /\ IsReturn(last["s1"], "PENDING")
    /\ IsReturn(last["s2"], "PENDING")
    /\ last["s1"].arg = ValidRequestA
    /\ last["s2"].arg = ValidRequestB
    /\ last["s1"].at < last["s2"].at
    /\ last["s1"].outcome.value.reservationId = last["s2"].outcome.value.reservationId
    /\ DOMAIN RESERVATIONS = {MockReservationId}
    /\ \A f \in BookingFields : RESERVATIONS[MockReservationId][f] = ValidRequestB[f]

\* the values reservationStatus takes
ReservationStatuses == {"PENDING", "CONFIRMED"}

\* C22: every stored reservation has status PENDING or CONFIRMED, and it has a
\* confirmed_at field exactly when its status is CONFIRMED.
C22_StatusAndConfirmedAt ==
    \A id \in DOMAIN RESERVATIONS :
        /\ StatusIn(RESERVATIONS, id) \in ReservationStatuses
        /\ ("confirmed_at" \in DOMAIN RESERVATIONS[id]) <=> (StatusIn(RESERVATIONS, id) = "CONFIRMED")

\* C22 witness: a CONFIRMED reservation with its confirmed_at was replaced by a
\* reserve_flight, and the stored reservation is PENDING without confirmed_at
C22_Witness ==
    /\ lastExec.op = "reserve_flight"
    /\ IsReturn(lastExec, "PENDING")
    /\ MockReservationId \in DOMAIN lastExec.pre
    /\ StatusIn(lastExec.pre, MockReservationId) = "CONFIRMED"
    /\ "confirmed_at" \in DOMAIN lastExec.pre[MockReservationId]
    /\ StatusIn(RESERVATIONS, MockReservationId) = "PENDING"
    /\ "confirmed_at" \notin DOMAIN RESERVATIONS[MockReservationId]

\* the handler takes a message from the connection in this step
TakesMessage(c) == Len(inbox'[c]) < Len(inbox[c])

\* C23: on one connection the handler takes the next message only when it is
\* processing no task; it stops processing a task only when the agent stream has
\* ended, when it has raised, or when a send on the closed connection has failed;
\* and no cancellation token of any task is ever cancelled.
C23_OneTaskAtATime ==
    [][ \A c \in Conns :
          /\ TakesMessage(c) =>
                /\ ~Busy(c)
                /\ task[c] = 0
                /\ task'[c] = Head(inbox[c])
          /\ (task'[c] # task[c]) => (task[c] = 0 \/ task'[c] = 0)
          /\ (Busy(c) /\ task'[c] = 0) =>
                \/ hpc[c] = "stream"
                \/ hpc[c] = "send_error"
                \/ hpc[c] = "send" /\ ~open[c]
          /\ cancelled' = {} ]_vars

\* C23 witness: the second message arrived while task 1 was being processed; the
\* last thing sent belongs to task 1, and task 2 is now being processed
C23_Witness ==
    /\ <<"c1", 1>> \in overtaken
    /\ task["c1"] = 2
    /\ hpc["c1"] = "send"
    /\ Len(out["c1"]) >= 1
    /\ out["c1"][Len(out["c1"])].task = 1
    /\ cancelled = {}

\* where a handler can stand: in its loops, or past its finally clause
HandlerSteps == {"recv", "stream", "send", "send_error", "finished"}

\* C24: the handler never ends by an exception, and, provided the agent stream of
\* a task never runs for ever, a handler whose connection is closed eventually
\* reaches its final step.
C24_HandlerFinishes ==
    \A c \in Conns :
        /\ [](hpc[c] \in HandlerSteps)
        /\ ([]<>(hpc[c] # "stream")) => ((~open[c]) ~> (hpc[c] = "finished"))

\* C24 witness: the connection closed while task 1 was streaming, the send of its
\* first chunk failed, and the handler has reached its final step
C24_Witness ==
    /\ hpc["c1"] = "finished"
    /\ ~open["c1"]
    /\ nsent["c1"] = 1
    /\ produced["c1"] = 1
    /\ chunk["c1"] = "message"
    /\ out["c1"] = <<>>

====
